---- MODULE Spec2Model ----
(***************************************************************************)
(* Model of meles-rs: the benchmark problem catalog (ceed_bps.rs), the     *)
(* Meles facade (lib.rs), the construction of the MatShell context         *)
(* (ceed_bps.rs, mat_shell_context) and the two MatShell callbacks         *)
(* (petsc_ops.rs).                                                         *)
(*                                                                         *)
(* Vectors are modelled by short sequences of small naturals; the PETSc    *)
(* scatter / gather and the libCEED operator are modelled by what the      *)
(* call sites rely on: INSERT overwrites the mapped entries, ADD sums      *)
(* into the mapped entries, the operator writes its active output.         *)
(***************************************************************************)
EXTENDS Integers, Sequences, FiniteSets, TLC

\* ------------------------------------------------------------------------
\* Bounds of the model
\* ------------------------------------------------------------------------
MaxOrder == 2
MaxQExtra == 1
MaxVal == 1
MaxDepth == 2
NumGlobal == 1
NumElements == 1
IntBits == 8
\* the mesh row has GridSteps + 1 nodes; eps is drawn from k / EpsSteps
GridSteps == 12
EpsSteps == 2

\* ------------------------------------------------------------------------
\* Program constants
\* ------------------------------------------------------------------------
\* nodes per dimension of the geometry basis
GeometryNodes == 2
\* dm.dimension() of the benchmark meshes
Dimension == 3

\* the local vector has one entry more than the global one
NumLocal == NumGlobal + 1

\* ------------------------------------------------------------------------
\* BP enum, parsing and catalog (ceed_bps.rs)
\* ------------------------------------------------------------------------
CeedBP == {"BP1", "BP2", "BP3", "BP4", "BP5", "BP6"}

\* values of the -problem option; "unset" is an absent option
ProblemStrings == {"unset", "bp1", "bp2", "bp3", "bp4", "bp5", "bp6",
                   "bp0", "bp7", "BP1"}

from_str_default_bp1(s) ==
    CASE s = "bp1" -> [ok |-> TRUE, bp |-> "BP1"]
      [] s = "bp2" -> [ok |-> TRUE, bp |-> "BP2"]
      [] s = "bp3" -> [ok |-> TRUE, bp |-> "BP3"]
      [] s = "bp4" -> [ok |-> TRUE, bp |-> "BP4"]
      [] s = "bp5" -> [ok |-> TRUE, bp |-> "BP5"]
      [] s = "bp6" -> [ok |-> TRUE, bp |-> "BP6"]
      [] OTHER     -> [ok |-> TRUE, bp |-> "BP1"]

from_str(s) ==
    CASE s = "bp1" -> [ok |-> TRUE, bp |-> "BP1"]
      [] s = "bp2" -> [ok |-> TRUE, bp |-> "BP2"]
      [] s = "bp3" -> [ok |-> TRUE, bp |-> "BP3"]
      [] s = "bp4" -> [ok |-> TRUE, bp |-> "BP4"]
      [] s = "bp5" -> [ok |-> TRUE, bp |-> "BP5"]
      [] s = "bp6" -> [ok |-> TRUE, bp |-> "BP6"]
      [] OTHER     -> [ok |-> FALSE, bp |-> "none"]

BPData(nc, qds, setup, apply, inp, out, qm, bc) ==
    [num_components |-> nc, q_data_size |-> qds, setup_name |-> setup,
     apply_name |-> apply, input_name |-> inp, output_name |-> out,
     q_mode |-> qm, set_boundary_conditions |-> bc]

NoBPData == BPData(0, 0, "", "", "", "", "", FALSE)

bp_data_bp5_gauss(bp) ==
    CASE bp = "BP1" -> BPData(1, 1, "Mass3DBuild", "MassApply", "u", "v", "Gauss", FALSE)
      [] bp = "BP2" -> BPData(3, 1, "Mass3DBuild", "Vector3MassApply", "u", "v", "Gauss", FALSE)
      [] bp = "BP3" -> BPData(1, 6, "Poisson3DBuild", "Poisson3DApply", "du", "dv", "Gauss", TRUE)
      [] bp = "BP4" -> BPData(3, 6, "Poisson3DBuild", "Vector3Poisson3DApply", "du", "dv", "Gauss", TRUE)
      [] bp = "BP5" -> BPData(1, 6, "Poisson3DBuild", "Poisson3DApply", "du", "dv", "Gauss", TRUE)
      [] bp = "BP6" -> BPData(3, 6, "Poisson3DBuild", "Vector3Poisson3DApply", "du", "dv", "GaussLobatto", TRUE)

bp_data(bp) ==
    CASE bp = "BP1" -> BPData(1, 1, "Mass3DBuild", "MassApply", "u", "v", "Gauss", FALSE)
      [] bp = "BP2" -> BPData(3, 1, "Mass3DBuild", "Vector3MassApply", "u", "v", "Gauss", FALSE)
      [] bp = "BP3" -> BPData(1, 6, "Poisson3DBuild", "Poisson3DApply", "du", "dv", "Gauss", TRUE)
      [] bp = "BP4" -> BPData(3, 6, "Poisson3DBuild", "Vector3Poisson3DApply", "du", "dv", "Gauss", TRUE)
      [] bp = "BP5" -> BPData(1, 6, "Poisson3DBuild", "Poisson3DApply", "du", "dv", "GaussLobatto", TRUE)
      [] bp = "BP6" -> BPData(3, 6, "Poisson3DBuild", "Vector3Poisson3DApply", "du", "dv", "GaussLobatto", TRUE)

\* Opt::from_opt_builder: an absent -problem is CeedBP::BP1, a present one is
\* parsed by from_str and a parse error fails the options read.
from_opt_builder(db) ==
    LET parsed == IF db.problem = "unset" THEN [ok |-> TRUE, bp |-> "BP1"]
                                          ELSE from_str(db.problem)
    IN [ok |-> parsed.ok, problem |-> parsed.bp,
        order |-> db.order, q_extra |-> db.q_extra]

\* ------------------------------------------------------------------------
\* State
\* ------------------------------------------------------------------------
VARIABLES
    options,      \* PETSc options database: -problem, -order, -qextra
    lookup,       \* last Opt read and catalog lookup (create_dm, mat_shell_context)
    meles,        \* Meles facade: constructed, is_initalized, method
    dm_result,    \* outcome of the last Meles::dm
    mat,          \* outcome of the last Meles::mat_shell_from_dm
    ctx,          \* MelesMatShellContext built by mat_shell_context
    qdata,        \* quadrature data vector of the context
    borrowed,     \* RefCell borrow flags of the context's scratch cells
    wrapped,      \* libCEED vectors currently wrapping a PETSc scratch slice
    stack,        \* active callback invocations, innermost last
    x_loc,        \* local input scratch vector
    y_loc,        \* local output scratch vector
    y_global,     \* the solver's output vector (y of apply, d of get_diagonal)
    last_call,    \* record of the callback invocation that ended last
    mesh_dm,      \* the DM held by the Meles context
    idx,          \* a closure index and its resolution by involute
    coords        \* local coordinates of the mesh given to kershaw_transformation

vars == <<options, lookup, meles, dm_result, mat, ctx, qdata, borrowed,
          wrapped, stack, x_loc, y_loc, y_global, last_call, mesh_dm, idx,
          coords>>

facade_vars == <<meles, dm_result, mat>>
shell_vars == <<borrowed, wrapped, stack, x_loc, y_loc, y_global, last_call>>

Cells == {"x_loc", "x_loc_ceed", "y_loc", "y_loc_ceed"}
Values == 0..MaxVal
GlobalVectors == [1..NumGlobal -> Values]
ZeroGlobal == [g \in 1..NumGlobal |-> 0]
ZeroLocal == [l \in 1..NumLocal |-> 0]

NoLookup == [who |-> "none", ok |-> FALSE, problem |-> "none", data |-> NoBPData]
NoCall == [kind |-> "none", result |-> "none", failed |-> "none", log |-> <<>>,
           unwound |-> 0]
NoBasis == [dim |-> 0, num_components |-> 0, p |-> 0, q |-> 0, q_mode |-> "",
            num_nodes |-> 0, num_quadrature_points |-> 0]
NoRestriction == [num_elements |-> 0, elem_size |-> 0, num_components |-> 0,
                  l_size |-> 0]
NoQData == [len |-> 0, writes |-> 0, val |-> 0]

\* A DM before setup_dm_by_order: a mesh may come with its "marker" label.
NewDM(has_marker) ==
    [labels |-> IF has_marker THEN {"marker"} ELSE {},
     had_marker |-> has_marker, marked |-> 0, boundaries |-> <<>>,
     setups |-> 0, panicked |-> FALSE]

NoIndex == [calls |-> 0, i |-> 0, once |-> 0, twice |-> 0, overflow |-> FALSE]
NoCtx == [state |-> "none", stages |-> <<>>, bc |-> FALSE, p |-> 0, q |-> 0,
          dm |-> NewDM(FALSE), dm_dimension |-> 0, basis_x |-> NoBasis, basis_u |-> NoBasis,
          restr_u |-> NoRestriction, restr_qdata |-> NoRestriction]
NoCoords == [state |-> "none", eps |-> 0, before |-> <<>>, nodes |-> <<>>,
             trace |-> <<>>]

InitCore ==
    /\ lookup = NoLookup
    /\ meles = [constructed |-> FALSE, is_initalized |-> FALSE,
                method |-> "BenchmarkProblem"]
    /\ dm_result = "none"
    /\ mat = [result |-> "none", dm_done |-> FALSE, ops |-> {}]
    /\ ctx = NoCtx
    /\ qdata = NoQData
    /\ borrowed = [c \in Cells |-> 0]
    /\ wrapped = {}
    /\ stack = <<>>
    /\ x_loc = ZeroLocal
    /\ y_loc = ZeroLocal
    /\ y_global = ZeroGlobal
    /\ last_call = NoCall
    /\ mesh_dm = NewDM(FALSE)

Init ==
    /\ InitCore
    /\ options \in [problem : ProblemStrings,
                    order : 1..MaxOrder,
                    q_extra : 0..MaxQExtra]
    /\ idx = NoIndex
    /\ coords = NoCoords

\* The options read and catalog lookup that open create_dm and
\* mat_shell_context: petsc.options()? followed by bp_data(problem)?.
ReadOptions(who) ==
    LET opt == from_opt_builder(options)
    IN [who |-> who, ok |-> opt.ok, problem |-> opt.problem,
        data |-> IF opt.ok THEN bp_data(opt.problem) ELSE NoBPData]

\* ------------------------------------------------------------------------
\* Meles facade (lib.rs)
\* ------------------------------------------------------------------------
Meles_new_initialized(ok) ==
    /\ ~meles.constructed
    /\ IF ok
       THEN meles' = [constructed |-> TRUE, is_initalized |-> TRUE,
                      method |-> "BenchmarkProblem"]
       ELSE meles' = meles
    /\ UNCHANGED <<options, mesh_dm, idx, coords, lookup, dm_result, mat, ctx, qdata, shell_vars>>

\* Meles::new: any of the library calls may fail (?), otherwise the context
\* is returned with is_initalized: false.
Meles_new(ok) ==
    /\ ~meles.constructed
    /\ IF ok
       THEN meles' = [constructed |-> TRUE, is_initalized |-> FALSE,
                      method |-> "BenchmarkProblem"]
       ELSE meles' = meles
    /\ UNCHANGED <<options, mesh_dm, idx, coords, lookup, dm_result, mat, ctx, qdata, shell_vars>>

\* if set_boundary_conditions { Some(boundary_function_diff) } else { None }
user_boundary_function(set_boundary_conditions) ==
    IF set_boundary_conditions THEN "boundary_function_diff" ELSE "None"

setup_dm_by_order_always_marks(d, enforce_boundary_conditions, bc_fn) ==
    IF ~enforce_boundary_conditions
    THEN [d EXCEPT !.setups = @ + 1]
    ELSE LET labels == d.labels \cup {"marker"}
         IN IF "marker" \notin labels \/ bc_fn = "None"
            THEN [d EXCEPT !.labels = labels, !.marked = @ + 1,
                           !.setups = @ + 1, !.panicked = TRUE]
            ELSE [d EXCEPT !.labels = labels, !.marked = @ + 1,
                           !.setups = @ + 1,
                           !.boundaries = Append(@,
                              [name |-> "wall", label |-> "marker",
                               value |-> 1, fn |-> bc_fn])]

\* dm::setup_dm_by_order: when boundary conditions are enforced, create and
\* mark the "marker" label unless the DM has it, then add the essential
\* boundary "wall" on it; get_label(..).unwrap() and
\* user_boundary_function.unwrap() panic on None.
setup_dm_by_order(d, enforce_boundary_conditions, bc_fn) ==
    IF ~enforce_boundary_conditions
    THEN [d EXCEPT !.setups = @ + 1]
    ELSE LET has_label == "marker" \in d.labels
             labels == IF has_label THEN d.labels ELSE d.labels \cup {"marker"}
             marked == IF has_label THEN d.marked ELSE d.marked + 1
         IN IF "marker" \notin labels \/ bc_fn = "None"
            THEN [d EXCEPT !.labels = labels, !.marked = marked,
                           !.setups = @ + 1, !.panicked = TRUE]
            ELSE [d EXCEPT !.labels = labels, !.marked = marked,
                           !.setups = @ + 1,
                           !.boundaries = Append(@,
                              [name |-> "wall", label |-> "marker",
                               value |-> 1, fn |-> bc_fn])]

\* ceed_bps::create_dm: options, catalog lookup, DM creation and setup.
\* It returns the DM or the first error; it has no access to is_initalized.
create_dm(lib_ok, has_marker) ==
    LET r == ReadOptions("create_dm")
        d == setup_dm_by_order(NewDM(has_marker),
                               r.data.set_boundary_conditions,
                               user_boundary_function(
                                   r.data.set_boundary_conditions))
    IN [lookup |-> r, ok |-> r.ok /\ lib_ok, dm |-> d]

\* Meles::dm: self.method = method; create_dm(..)?; Ok(())
dm(method, lib_ok, has_marker) ==
    /\ meles.constructed
    /\ stack = <<>>
    /\ LET r == create_dm(lib_ok, has_marker)
       IN /\ lookup' = r.lookup
          /\ dm_result' = IF ~r.ok THEN "err"
                          ELSE IF r.dm.panicked THEN "panic" ELSE "ok"
          /\ mesh_dm' = IF r.ok /\ ~r.dm.panicked THEN r.dm ELSE mesh_dm
    /\ meles' = [meles EXCEPT !.method = method]
    /\ UNCHANGED <<options, idx, coords, mat, ctx, qdata, shell_vars>>

\* Meles::mat_shell_from_dm: the two asserts, then create_matrix()?,
\* into_shell()? and the registration of the two callbacks.
mat_shell_from_dm(lib_ok) ==
    /\ meles.constructed
    /\ stack = <<>>
    /\ mat' = IF ~meles.is_initalized \/ meles.method # "BenchmarkProblem"
              THEN [result |-> "panic", dm_done |-> dm_result = "ok", ops |-> {}]
              ELSE IF ~lib_ok
              THEN [result |-> "err", dm_done |-> dm_result = "ok", ops |-> {}]
              ELSE [result |-> "shell", dm_done |-> dm_result = "ok",
                    ops |-> {"MATOP_MULT", "MATOP_GET_DIAGONAL"}]
    /\ UNCHANGED <<options, mesh_dm, idx, coords, lookup, meles, dm_result, ctx, qdata, shell_vars>>

\* ------------------------------------------------------------------------
\* Construction of the MatShell context (ceed_bps.rs, mat_shell_context)
\* ------------------------------------------------------------------------
\* The fallible stages of mat_shell_context in program order.
MatShellContextStages ==
    <<"options", "setup_dm", "work_vectors", "basis", "restriction",
      "qdata_vector", "qfunction", "setup_wrap", "setup_apply", "op_ceed">>

NumStages == Len(MatShellContextStages)

Cube(n) == n * n * n

Count(seq, e) == Cardinality({i \in 1..Len(seq) : seq[i] = e})

\* Position of stage e in seq, 0 when it is absent.
StageIndex(seq, e) ==
    IF \E i \in 1..Len(seq) : seq[i] = e
    THEN CHOOSE i \in 1..Len(seq) : seq[i] = e
    ELSE 0

\* Ceed::basis_tensor_H1_Lagrange(dim, ncomp, P, Q, qmode)
basis_tensor_H1_Lagrange(dim, ncomp, p, q, q_mode) ==
    [dim |-> dim, num_components |-> ncomp, p |-> p, q |-> q,
     q_mode |-> q_mode, num_nodes |-> p ^ dim,
     num_quadrature_points |-> q ^ dim]

basis_x_gauss(q, q_mode) ==
    basis_tensor_H1_Lagrange(Dimension, Dimension, GeometryNodes, q, "Gauss")

\* basis_x: the geometry basis
basis_x(q, q_mode) ==
    basis_tensor_H1_Lagrange(Dimension, Dimension, GeometryNodes, q, q_mode)

\* basis_u: the field basis
basis_u(num_components, p, q, q_mode) ==
    basis_tensor_H1_Lagrange(Dimension, num_components, p, q, q_mode)

\* Ceed::elem_restriction / Ceed::strided_elem_restriction
elem_restriction(num_elements, elem_size, num_components, l_size) ==
    [num_elements |-> num_elements, elem_size |-> elem_size,
     num_components |-> num_components, l_size |-> l_size]

\* create_restriction_from_dm_plex on the field DM: one entry per cell,
\* node and component.
restr_u(num_components, p) ==
    elem_restriction(NumElements, p ^ Dimension, num_components,
                     NumElements * (p ^ Dimension) * num_components)

restr_qdata_by_nodes(ru, bu, q_data_size) ==
    elem_restriction(ru.num_elements, ru.elem_size, q_data_size,
                     ru.num_elements * ru.elem_size * q_data_size)

\* restr_qdata: strided, sized from restr_u and basis_u
restr_qdata(ru, bu, q_data_size) ==
    LET num_elements == ru.num_elements
        num_quadrature_points == bu.num_quadrature_points
    IN elem_restriction(num_elements, num_quadrature_points, q_data_size,
                        num_elements * num_quadrature_points * q_data_size)

\* Operator::check on the apply operator: the active fields and the
\* collocated qdata field must agree on elements, nodes and quadrature points.
check(ru, bu, rq) ==
    /\ rq.num_elements = ru.num_elements
    /\ rq.elem_size = bu.num_quadrature_points
    /\ ru.elem_size = bu.num_nodes
    /\ ru.num_components = bu.num_components

\* mat_shell_context: runs the stages in order; `fail` is the stage whose
\* library call fails (0: none).  A failed options read (bad -problem) fails
\* the first stage.  The wrap of the coordinate slice is an expect (panic),
\* as are the unwraps of setup_dm_by_order; every other failure is returned
\* with `?`.
mat_shell_context(fail) ==
    /\ meles.constructed
    /\ ctx.state # "built"
    /\ stack = <<>>
    /\ LET r == ReadOptions("mat_shell_context")
           d == setup_dm_by_order(mesh_dm, r.data.set_boundary_conditions,
                                  user_boundary_function(
                                      r.data.set_boundary_conditions))
           p == options.order + 1
           q == p + options.q_extra
           bx == basis_x(q, r.data.q_mode)
           bu == basis_u(r.data.num_components, p, q, r.data.q_mode)
           ru == restr_u(r.data.num_components, p)
           rq == restr_qdata(ru, bu, r.data.q_data_size)
           stop == IF ~r.ok THEN 1
                   ELSE IF fail = 0 /\ d.panicked
                   THEN StageIndex(MatShellContextStages, "setup_dm")
                   ELSE IF fail = 0 /\ ~check(ru, bu, rq)
                   THEN StageIndex(MatShellContextStages, "op_ceed")
                   ELSE fail
           done == IF stop = 0 THEN MatShellContextStages
                   ELSE SubSeq(MatShellContextStages, 1, stop - 1)
           has(stage) == Count(done, stage) > 0
       IN /\ fail = 0 \/ r.ok
          /\ lookup' = r
          /\ ctx' = [state |-> IF stop = 0 THEN "built"
                               ELSE IF MatShellContextStages[stop] = "setup_wrap"
                                       \/ (fail = 0 /\ r.ok /\ d.panicked)
                               THEN "panic" ELSE "err",
                     stages |-> done,
                     bc |-> r.data.set_boundary_conditions,
                     p |-> IF has("basis") THEN p ELSE 0,
                     q |-> IF has("basis") THEN q ELSE 0,
                     dm |-> IF has("setup_dm") THEN d ELSE NewDM(FALSE),
                     dm_dimension |-> IF has("basis") THEN Dimension ELSE 0,
                     basis_x |-> IF has("basis") THEN bx ELSE NoBasis,
                     basis_u |-> IF has("basis") THEN bu ELSE NoBasis,
                     restr_u |-> IF has("restriction") THEN ru ELSE NoRestriction,
                     restr_qdata |-> IF has("restriction") THEN rq
                                     ELSE NoRestriction]
          /\ qdata' = IF stop = 0
                      THEN [len |-> rq.l_size,
                            writes |-> Count(done, "setup_apply"),
                            val |-> 1]
                      ELSE NoQData
    /\ UNCHANGED <<options, mesh_dm, idx, coords, facade_vars, shell_vars>>

\* ------------------------------------------------------------------------
\* PETSc / libCEED calls used by the callbacks
\* ------------------------------------------------------------------------
\* Local-to-global map of the local vector: entry 0 is a DoF constrained by
\* the essential boundary (no global entry); without boundary conditions
\* the last local entry is a second copy of global entry NumGlobal.
L2G(bc) == [l \in 1..NumLocal |->
              IF l <= NumGlobal THEN l ELSE IF bc THEN 0 ELSE NumGlobal]

RECURSIVE SumWhere(_, _, _, _)
RECURSIVE ElementSum(_, _)
SumWhere(loc, map, g, l) ==
    IF l = 0 THEN 0
    ELSE SumWhere(loc, map, g, l - 1) + (IF map[l] = g THEN loc[l] ELSE 0)

\* DM::global_to_local with INSERT_VALUES
global_to_local_insert(xg, loc, bc) ==
    [l \in 1..NumLocal |-> IF L2G(bc)[l] = 0 THEN loc[l] ELSE xg[L2G(bc)[l]]]

\* DM::local_to_global with ADD_VALUES
local_to_global_add(loc, yg, bc) ==
    [g \in 1..NumGlobal |-> yg[g] + SumWhere(loc, L2G(bc), g, NumLocal)]

\* Operator::apply: the active output is overwritten from the active input
\* and the passive qdata field.
ElementSum(xl, l) ==
    IF l = 0 THEN 0 ELSE ElementSum(xl, l - 1) + xl[l]

\* The element kernel couples every node of the element: each output node
\* reads all input nodes, the constrained ones included.
OperatorApply(xl, qd) ==
    [l \in 1..NumLocal |-> qd.val * ElementSum(xl, NumLocal)]

\* Operator::linear_assemble_diagonal
AssembleDiagonal(qd) == [l \in 1..NumLocal |-> qd.val]

\* ------------------------------------------------------------------------
\* Callback frames (petsc_ops.rs)
\* ------------------------------------------------------------------------
Top == stack[Len(stack)]

Running(kind, pc) == stack # <<>> /\ Top.kind = kind /\ Top.pc = pc

\* RefCells a callback borrows mutably on entry
Needs(kind) == IF kind = "apply" THEN Cells ELSE {"x_loc", "x_loc_ceed"}

can_borrow_mut_unchecked(c) == TRUE

\* RefCell::borrow_mut succeeds only when the cell is not borrowed
can_borrow_mut(c) == borrowed[c] = 0

Event(op, vec, mode) == [op |-> op, vec |-> vec, mode |-> mode]

Goto(pc, log) ==
    stack' = [stack EXCEPT ![Len(stack)] = [@ EXCEPT !.pc = pc, !.log = log]]

\* Return from the innermost call: its RefMut guards and any wrapper local
\* still in scope are dropped.
Return(result, failed, log) ==
    /\ stack' = SubSeq(stack, 1, Len(stack) - 1)
    /\ borrowed' = [c \in Cells |->
                      IF c \in Needs(Top.kind) THEN borrowed[c] - 1
                      ELSE borrowed[c]]
    /\ wrapped' = {}
    /\ last_call' = [kind |-> Top.kind, result |-> result, failed |-> failed,
                     log |-> log, unwound |-> 0]

\* A panic unwinds the innermost call and every call below it, dropping
\* all guards and wrappers.
Panic(kind, failed, log, depth) ==
    /\ stack' = <<>>
    /\ borrowed' = [c \in Cells |-> 0]
    /\ wrapped' = {}
    /\ last_call' = [kind |-> kind, result |-> "panic", failed |-> failed,
                     log |-> log, unwound |-> depth]

\* Entry of a callback: the borrow_mut calls that open the function.
Enter(kind, pc, x) ==
    /\ ctx.state = "built"
    /\ Len(stack) < MaxDepth
    /\ IF \A c \in Needs(kind) : can_borrow_mut(c)
       THEN /\ stack' = Append(stack, [kind |-> kind, pc |-> pc, x |-> x,
                                       y_in |-> y_global, log |-> <<>>])
            /\ borrowed' = [c \in Cells |->
                              IF c \in Needs(kind) THEN borrowed[c] + 1
                              ELSE borrowed[c]]
            /\ UNCHANGED <<wrapped, last_call>>
       ELSE Panic(kind, "borrow_mut", <<>>, Len(stack))
    /\ UNCHANGED <<options, mesh_dm, idx, coords, lookup, facade_vars, ctx, qdata, x_loc, y_loc,
                   y_global>>

\* ------------------------------------------------------------------------
\* apply_local_ceed_op (petsc_ops.rs)
\* ------------------------------------------------------------------------
apply_local_ceed_op(x) == Enter("apply", "global_to_local", x)

\* dm.global_to_local(x, INSERT_VALUES, &mut x_loc)?
apply_global_to_local_zeroes_output(ok) ==
    /\ Running("apply", "global_to_local")
    /\ IF ok
       THEN /\ x_loc' = global_to_local_insert(Top.x, x_loc, ctx.bc)
            /\ Goto("wrap_x", Append(Top.log,
                    Event("global_to_local", "x_loc", "INSERT_VALUES")))
            /\ UNCHANGED <<borrowed, wrapped, last_call>>
       ELSE /\ Return("err", "global_to_local", Top.log)
            /\ UNCHANGED x_loc
    /\ y_global' = ZeroGlobal
    /\ UNCHANGED <<options, mesh_dm, idx, coords, lookup, facade_vars, ctx, qdata, y_loc>>

apply_global_to_local(ok) ==
    /\ Running("apply", "global_to_local")
    /\ IF ok
       THEN /\ x_loc' = global_to_local_insert(Top.x, x_loc, ctx.bc)
            /\ Goto("wrap_x", Append(Top.log,
                    Event("global_to_local", "x_loc", "INSERT_VALUES")))
            /\ UNCHANGED <<borrowed, wrapped, last_call>>
       ELSE /\ Return("err", "global_to_local", Top.log)
            /\ UNCHANGED x_loc
    /\ UNCHANGED <<options, mesh_dm, idx, coords, lookup, facade_vars, ctx, qdata, y_loc, y_global>>

\* x_loc.view_mut()?, as_slice_mut().expect, x_loc_ceed.wrap_slice_mut().expect
apply_wrap_x(outcome) ==
    /\ Running("apply", "wrap_x")
    /\ CASE outcome = "ok" ->
              /\ wrapped' = wrapped \cup {"x_loc_ceed"}
              /\ Goto("wrap_y", Top.log)
              /\ UNCHANGED <<borrowed, last_call>>
         [] outcome = "err" -> Return("err", "view_mut", Top.log)
         [] outcome = "panic" -> Panic("apply", "wrap_slice_mut", Top.log,
                                       Len(stack) - 1)
    /\ UNCHANGED <<options, mesh_dm, idx, coords, lookup, facade_vars, ctx, qdata, x_loc, y_loc,
                   y_global>>

\* y_loc.view_mut()?, as_slice_mut().expect, y_loc_ceed.wrap_slice_mut().expect
apply_wrap_y(outcome) ==
    /\ Running("apply", "wrap_y")
    /\ CASE outcome = "ok" ->
              /\ wrapped' = wrapped \cup {"y_loc_ceed"}
              /\ Goto("operator", Top.log)
              /\ UNCHANGED <<borrowed, last_call>>
         [] outcome = "err" -> Return("err", "view_mut", Top.log)
         [] outcome = "panic" -> Panic("apply", "wrap_slice_mut", Top.log,
                                       Len(stack) - 1)
    /\ UNCHANGED <<options, mesh_dm, idx, coords, lookup, facade_vars, ctx, qdata, x_loc, y_loc,
                   y_global>>

apply_operator_writes_qdata(ok) ==
    /\ Running("apply", "operator")
    /\ IF ok
       THEN /\ y_loc' = OperatorApply(x_loc, qdata)
            /\ qdata' = [qdata EXCEPT !.writes = @ + 1]
            /\ wrapped' = wrapped \ {"x_loc_ceed", "y_loc_ceed"}
            /\ Goto("zero_entries", Append(Top.log,
                    Event("apply", "y_loc", "-")))
            /\ UNCHANGED <<borrowed, last_call>>
       ELSE /\ Panic("apply", "apply", Top.log, Len(stack) - 1)
            /\ UNCHANGED <<y_loc, qdata>>
    /\ UNCHANGED <<options, mesh_dm, idx, coords, lookup, facade_vars, ctx, x_loc, y_global>>

apply_operator_keeps_wrappers(ok) ==
    /\ Running("apply", "operator")
    /\ IF ok
       THEN /\ y_loc' = OperatorApply(x_loc, qdata)
            /\ Goto("zero_entries", Append(Top.log,
                    Event("apply", "y_loc", "-")))
            /\ UNCHANGED <<borrowed, last_call, wrapped>>
       ELSE /\ Panic("apply", "apply", Top.log, Len(stack) - 1)
            /\ UNCHANGED y_loc
    /\ UNCHANGED <<options, mesh_dm, idx, coords, lookup, facade_vars, ctx, qdata, x_loc, y_global>>

\* op_ceed.apply(&x_loc_ceed, &mut y_loc_ceed).expect; the block then ends
\* and both wrappers are dropped.
apply_operator(ok) ==
    /\ Running("apply", "operator")
    /\ IF ok
       THEN /\ y_loc' = OperatorApply(x_loc, qdata)
            /\ wrapped' = wrapped \ {"x_loc_ceed", "y_loc_ceed"}
            /\ Goto("zero_entries", Append(Top.log,
                    Event("apply", "y_loc", "-")))
            /\ UNCHANGED <<borrowed, last_call>>
       ELSE /\ Panic("apply", "apply", Top.log, Len(stack) - 1)
            /\ UNCHANGED y_loc
    /\ UNCHANGED <<options, mesh_dm, idx, coords, lookup, facade_vars, ctx, qdata, x_loc, y_global>>

\* y.zero_entries()?
apply_zero_entries(ok) ==
    /\ Running("apply", "zero_entries")
    /\ IF ok
       THEN /\ y_global' = ZeroGlobal
            /\ Goto("local_to_global", Append(Top.log,
                    Event("zero_entries", "global", "-")))
            /\ UNCHANGED <<borrowed, wrapped, last_call>>
       ELSE /\ Return("err", "zero_entries", Top.log)
            /\ UNCHANGED y_global
    /\ UNCHANGED <<options, mesh_dm, idx, coords, lookup, facade_vars, ctx, qdata, x_loc, y_loc>>

local_to_global_insert(loc, yg, bc) ==
    [g \in 1..NumGlobal |->
        IF \E l \in 1..NumLocal : L2G(bc)[l] = g
        THEN loc[CHOOSE l \in 1..NumLocal : L2G(bc)[l] = g /\
                    \A k \in 1..NumLocal : L2G(bc)[k] = g => k <= l]
        ELSE yg[g]]

apply_local_to_global_insert(ok) ==
    /\ Running("apply", "local_to_global")
    /\ IF ok
       THEN /\ y_global' = local_to_global_insert(y_loc, y_global, ctx.bc)
            /\ Return("ok", "none", Append(Top.log,
                      Event("local_to_global", "y_loc", "INSERT_VALUES")))
       ELSE /\ Return("err", "local_to_global", Top.log)
            /\ UNCHANGED y_global
    /\ UNCHANGED <<options, mesh_dm, idx, coords, lookup, facade_vars, ctx, qdata, x_loc, y_loc>>

\* dm.local_to_global(&y_loc, ADD_VALUES, y)?; Ok(())
apply_local_to_global(ok) ==
    /\ Running("apply", "local_to_global")
    /\ IF ok
       THEN /\ y_global' = local_to_global_add(y_loc, y_global, ctx.bc)
            /\ Return("ok", "none", Append(Top.log,
                      Event("local_to_global", "y_loc", "ADD_VALUES")))
       ELSE /\ Return("err", "local_to_global", Top.log)
            /\ UNCHANGED y_global
    /\ UNCHANGED <<options, mesh_dm, idx, coords, lookup, facade_vars, ctx, qdata, x_loc, y_loc>>

\* ------------------------------------------------------------------------
\* compute_diagonal_ceed (petsc_ops.rs)
\* ------------------------------------------------------------------------
compute_diagonal_ceed == Enter("diagonal", "wrap_x", ZeroGlobal)

\* x_loc.view_mut()?, as_slice_mut().expect, x_loc_ceed.wrap_slice_mut().expect
diagonal_wrap_x(outcome) ==
    /\ Running("diagonal", "wrap_x")
    /\ CASE outcome = "ok" ->
              /\ wrapped' = wrapped \cup {"x_loc_ceed"}
              /\ Goto("assemble", Top.log)
              /\ UNCHANGED <<borrowed, last_call>>
         [] outcome = "err" -> Return("err", "view_mut", Top.log)
         [] outcome = "panic" -> Panic("diagonal", "wrap_slice_mut", Top.log,
                                       Len(stack) - 1)
    /\ UNCHANGED <<options, mesh_dm, idx, coords, lookup, facade_vars, ctx, qdata, x_loc, y_loc,
                   y_global>>

diagonal_assemble_into_y_loc(ok) ==
    /\ Running("diagonal", "assemble")
    /\ IF ok
       THEN /\ y_loc' = AssembleDiagonal(qdata)
            /\ wrapped' = wrapped \ {"x_loc_ceed"}
            /\ Goto("zero_entries", Append(Top.log,
                    Event("linear_assemble_diagonal", "y_loc", "-")))
            /\ UNCHANGED <<borrowed, last_call>>
       ELSE /\ Panic("diagonal", "linear_assemble_diagonal", Top.log,
                     Len(stack) - 1)
            /\ UNCHANGED y_loc
    /\ UNCHANGED <<options, mesh_dm, idx, coords, lookup, facade_vars, ctx, qdata, x_loc, y_global>>

\* op_ceed.linear_assemble_diagonal(&mut x_loc_ceed).expect; the block then
\* ends and the wrapper is dropped.
diagonal_assemble(ok) ==
    /\ Running("diagonal", "assemble")
    /\ IF ok
       THEN /\ x_loc' = AssembleDiagonal(qdata)
            /\ wrapped' = wrapped \ {"x_loc_ceed"}
            /\ Goto("zero_entries", Append(Top.log,
                    Event("linear_assemble_diagonal", "x_loc", "-")))
            /\ UNCHANGED <<borrowed, last_call>>
       ELSE /\ Panic("diagonal", "linear_assemble_diagonal", Top.log,
                     Len(stack) - 1)
            /\ UNCHANGED x_loc
    /\ UNCHANGED <<options, mesh_dm, idx, coords, lookup, facade_vars, ctx, qdata, y_loc, y_global>>

\* d.zero_entries()?
diagonal_zero_entries(ok) ==
    /\ Running("diagonal", "zero_entries")
    /\ IF ok
       THEN /\ y_global' = ZeroGlobal
            /\ Goto("local_to_global", Append(Top.log,
                    Event("zero_entries", "global", "-")))
            /\ UNCHANGED <<borrowed, wrapped, last_call>>
       ELSE /\ Return("err", "zero_entries", Top.log)
            /\ UNCHANGED y_global
    /\ UNCHANGED <<options, mesh_dm, idx, coords, lookup, facade_vars, ctx, qdata, x_loc, y_loc>>

\* dm.local_to_global(&x_loc, ADD_VALUES, d)?; Ok(())
diagonal_local_to_global(ok) ==
    /\ Running("diagonal", "local_to_global")
    /\ IF ok
       THEN /\ y_global' = local_to_global_add(x_loc, y_global, ctx.bc)
            /\ Return("ok", "none", Append(Top.log,
                      Event("local_to_global", "x_loc", "ADD_VALUES")))
       ELSE /\ Return("err", "local_to_global", Top.log)
            /\ UNCHANGED y_global
    /\ UNCHANGED <<options, mesh_dm, idx, coords, lookup, facade_vars, ctx, qdata, x_loc, y_loc>>

\* ------------------------------------------------------------------------
\* Involute index (petsc-ceed-utils/src/lib.rs)
\* ------------------------------------------------------------------------
\* PetscInt is a two's complement integer; it is modelled with IntBits bits.
MinInt == -(2 ^ (IntBits - 1))
MaxInt == 2 ^ (IntBits - 1) - 1
IndexRange == MinInt..MaxInt
InRange(n) == MinInt <= n /\ n <= MaxInt
Wrap(n) == ((n - MinInt) % (2 ^ IntBits)) + MinInt

involute_flip(i) ==
    LET s == i + 1
        n == -Wrap(s)
    IN [val |-> Wrap(n), overflow |-> ~InRange(s) \/ ~InRange(n)]

involute_negate_first(i) ==
    IF i >= 0 THEN [val |-> i, overflow |-> FALSE]
    ELSE LET n == -i
             d == Wrap(n) - 1
         IN [val |-> Wrap(d), overflow |-> ~InRange(n) \/ ~InRange(d)]

\* involute: i if i >= 0, else -(i + 1); `overflow` tells whether the
\* addition or the negation left the range of PetscInt.
involute(i) ==
    IF i >= 0 THEN [val |-> i, overflow |-> FALSE]
    ELSE LET s == i + 1
             n == -Wrap(s)
         IN [val |-> Wrap(n), overflow |-> ~InRange(s) \/ ~InRange(n)]

core_vars == <<options, lookup, meles, dm_result, mat, ctx, qdata, shell_vars,
               mesh_dm>>

\* A closure index is resolved.
involute_index(i) ==
    /\ idx' = [calls |-> 1, i |-> i, once |-> involute(i).val, twice |-> 0,
               overflow |-> involute(i).overflow]
    /\ UNCHANGED <<core_vars, coords>>

\* The resolved index is resolved again.
involute_again ==
    /\ idx.calls = 1
    /\ idx' = [idx EXCEPT !.calls = 2,
                          !.twice = involute(idx.once).val,
                          !.overflow = @ \/ involute(idx.once).overflow]
    /\ UNCHANGED <<core_vars, coords>>

\* ------------------------------------------------------------------------
\* dm::kershaw_transformation
\* Scalars are exact fractions with denominator One; the mesh is a row of
\* box-mesh nodes x = 0, 1/GridSteps, .., 1 at one (y, z).
\* ------------------------------------------------------------------------
One == 6 * EpsSteps * GridSteps * GridSteps
Half == One \div 2
Mul(a, b) == (a * b) \div One

\* `x as i32`: truncation toward zero
Trunc(x) == IF x >= 0 THEN x \div One ELSE -((-x) \div One)

step(a, b, x) ==
    IF x <= 0 THEN a
    ELSE IF x >= One THEN b
    ELSE a + Mul(b - a, x)

right(eps, x) ==
    IF x <= Half THEN Mul(2 * One - eps, x)
    ELSE One + Mul(eps, x - One)

left(eps, x) == One - right(eps, One - x)

\* let layer = 6 * x as i32;  (`as` binds tighter than `*`)
kershaw_layer(x) == 6 * Trunc(x)

\* let lambda = (x - layer as f64 / 6.0) * 6.0;
kershaw_lambda(x, layer) == (x - (layer * One) \div 6) * 6

\* one iteration of the loop: the match on layer rewrites y and z
kershaw_node(eps, n) ==
    LET layer == kershaw_layer(n.x)
        lambda == kershaw_lambda(n.x, layer)
    IN CASE layer = 0 ->
              [x |-> n.x, y |-> left(eps, n.y), z |-> left(eps, n.z)]
         [] layer \in {1, 4} ->
              [x |-> n.x,
               y |-> step(left(eps, n.y), right(eps, n.y), lambda),
               z |-> step(left(eps, n.z), right(eps, n.z), lambda)]
         [] layer = 2 ->
              [x |-> n.x,
               y |-> step(right(eps, n.y), left(eps, n.y), lambda \div 2),
               z |-> step(right(eps, n.z), left(eps, n.z), lambda \div 2)]
         [] layer = 3 ->
              [x |-> n.x,
               y |-> step(right(eps, n.y), left(eps, n.y),
                          (One + lambda) \div 2),
               z |-> step(right(eps, n.z), left(eps, n.z),
                          (One + lambda) \div 2)]
         [] OTHER ->
              [x |-> n.x, y |-> right(eps, n.y), z |-> right(eps, n.z)]

\* kershaw_transformation(dm, eps): get_coordinates_local()?, then the loop
\* over all nodes; eps = e / EpsSteps.
kershaw_transformation(e, ok) ==
    /\ coords.state = "mesh"
    /\ IF ok
       THEN LET eps == e * (One \div EpsSteps)
            IN coords' =
                 [state |-> "transformed", eps |-> eps,
                  before |-> coords.nodes,
                  nodes |-> [i \in DOMAIN coords.nodes |->
                               kershaw_node(eps, coords.nodes[i])],
                  trace |-> [i \in DOMAIN coords.nodes |->
                               [layer |-> kershaw_layer(coords.nodes[i].x),
                                lambda |-> kershaw_lambda(coords.nodes[i].x,
                                      kershaw_layer(coords.nodes[i].x))]]]
       ELSE coords' = [coords EXCEPT !.state = "err"]
    /\ UNCHANGED <<core_vars, idx>>

\* the coordinates of a row of the unit box mesh
BoxRow(y, z) ==
    [k \in 1..(GridSteps + 1) |->
        [x |-> (k - 1) * (One \div GridSteps),
         y |-> y * (One \div GridSteps),
         z |-> z * (One \div GridSteps)]]

\* ------------------------------------------------------------------------
\* Specification
\* ------------------------------------------------------------------------
Outcomes == {"ok", "err", "panic"}

\* Construction: the facade and the MatShell context.
NextSetup ==
    \/ \E ok \in BOOLEAN : Meles_new(ok)
    \/ \E ok \in BOOLEAN, has_marker \in BOOLEAN :
          dm("BenchmarkProblem", ok, has_marker)
    \/ \E ok \in BOOLEAN : mat_shell_from_dm(ok)
    \/ \E fail \in 0..NumStages : mat_shell_context(fail)

\* The solver's calls on a context.
NextShell ==
    \/ \E ok \in BOOLEAN : Meles_new(ok)
    \/ \E fail \in 0..NumStages : mat_shell_context(fail)
    \/ \E x \in GlobalVectors : apply_local_ceed_op(x)
    \/ \E ok \in BOOLEAN : apply_global_to_local(ok)
    \/ \E o \in Outcomes : apply_wrap_x(o)
    \/ \E o \in Outcomes : apply_wrap_y(o)
    \/ \E ok \in BOOLEAN : apply_operator(ok)
    \/ \E ok \in BOOLEAN : apply_zero_entries(ok)
    \/ \E ok \in BOOLEAN : apply_local_to_global(ok)
    \/ compute_diagonal_ceed
    \/ \E o \in Outcomes : diagonal_wrap_x(o)
    \/ \E ok \in BOOLEAN : diagonal_assemble(ok)
    \/ \E ok \in BOOLEAN : diagonal_zero_entries(ok)
    \/ \E ok \in BOOLEAN : diagonal_local_to_global(ok)


\* The callbacks are explored for one problem without and one with
\* essential boundary conditions, at the lowest order.
ShellProblems == {"bp1", "bp3"}

InitShell == Init /\ options.problem \in ShellProblems /\ options.order = 1

NextInvolute ==
    \/ \E i \in IndexRange : involute_index(i)
    \/ involute_again

DefaultOptions == [problem |-> "unset", order |-> 1, q_extra |-> 0]

InitInvolute == Init /\ options = DefaultOptions

NextKershaw ==
    \E e \in 1..EpsSteps, ok \in BOOLEAN : kershaw_transformation(e, ok)

InitKershaw ==
    /\ InitCore
    /\ options = DefaultOptions
    /\ idx = NoIndex
    /\ \E y \in 0..GridSteps, z \in 0..GridSteps :
          coords = [state |-> "mesh", eps |-> 0, before |-> BoxRow(y, z),
                    nodes |-> BoxRow(y, z), trace |-> <<>>]

Next == NextSetup \/ NextShell \/ NextInvolute \/ NextKershaw

Spec == Init /\ [][Next]_vars
SpecKershaw == InitKershaw /\ [][NextKershaw]_vars
SpecInvolute == InitInvolute /\ [][NextInvolute]_vars
SpecSetup == Init /\ [][NextSetup]_vars
SpecShell == InitShell /\ [][NextShell]_vars

\* ------------------------------------------------------------------------
\* Properties
\* ------------------------------------------------------------------------
KnownIds == {"bp1", "bp2", "bp3", "bp4", "bp5", "bp6"}

DocumentedTable ==
    [bp \in CeedBP |->
       CASE bp = "BP1" -> BPData(1, 1, "Mass3DBuild", "MassApply", "u", "v", "Gauss", FALSE)
         [] bp = "BP2" -> BPData(3, 1, "Mass3DBuild", "Vector3MassApply", "u", "v", "Gauss", FALSE)
         [] bp = "BP3" -> BPData(1, 6, "Poisson3DBuild", "Poisson3DApply", "du", "dv", "Gauss", TRUE)
         [] bp = "BP4" -> BPData(3, 6, "Poisson3DBuild", "Vector3Poisson3DApply", "du", "dv", "Gauss", TRUE)
         [] bp = "BP5" -> BPData(1, 6, "Poisson3DBuild", "Poisson3DApply", "du", "dv", "GaussLobatto", TRUE)
         [] bp = "BP6" -> BPData(3, 6, "Poisson3DBuild", "Vector3Poisson3DApply", "du", "dv", "GaussLobatto", TRUE)]

\* C1: whenever a catalog lookup has been made for one of the six problems,
\* its result is the documented table entry of that problem, with
\* num_components in {1,3} and q_data_size in {1,6}; and the catalog gives
\* the documented entry for each of the six ids.
C1_CatalogTable ==
    /\ (lookup.who # "none" /\ lookup.ok) =>
          /\ lookup.problem \in CeedBP
          /\ lookup.data = DocumentedTable[lookup.problem]
          /\ lookup.data.num_components \in {1, 3}
          /\ lookup.data.q_data_size \in {1, 6}
    /\ lookup.who # "none" => \A bp \in CeedBP : bp_data(bp) = DocumentedTable[bp]

C1_Witness ==
    /\ lookup.who = "mat_shell_context"
    /\ lookup.ok
    /\ lookup.problem = "BP5"
    /\ lookup.data.q_mode = "GaussLobatto"

\* C2: once the options have been read, a -problem value that is not one of
\* "bp1".."bp6" has produced an error and no problem data (and a dm() built
\* on it has failed), while each known id has produced its own variant,
\* different from that of every other known id.
C2_UnknownProblemRejected ==
    lookup.who # "none" =>
      /\ (options.problem \notin KnownIds \cup {"unset"}) =>
            /\ ~lookup.ok
            /\ lookup.problem \notin CeedBP
            /\ lookup.data = NoBPData
            /\ dm_result # "ok"
            /\ ctx.state # "built"
      /\ (options.problem \in KnownIds) =>
            /\ lookup.ok
            /\ lookup.problem \in CeedBP
            /\ \A s \in KnownIds \ {options.problem} :
                  from_str(s).ok /\ from_str(s).bp # lookup.problem

C2_Witness ==
    /\ lookup.who = "create_dm"
    /\ options.problem = "bp7"
    /\ ~lookup.ok
    /\ dm_result = "err"

ApplyLog ==
    <<Event("global_to_local", "x_loc", "INSERT_VALUES"),
      Event("apply", "y_loc", "-"),
      Event("zero_entries", "global", "-"),
      Event("local_to_global", "y_loc", "ADD_VALUES")>>

WrongMode(e) ==
    \/ e.op = "local_to_global" /\ e.mode # "ADD_VALUES"
    \/ e.op = "global_to_local" /\ e.mode # "INSERT_VALUES"

NoWrongMode(log) == \A i \in 1..Len(log) : ~WrongMode(log[i])

\* C3: every apply that returned Ok performed exactly: scatter with INSERT
\* into x_loc, operator apply into y_loc, zero of y, gather of y_loc with
\* ADD, in this order; and no call, finished or running, has issued a gather
\* with INSERT or a scatter with ADD.
C3_ApplyOrder ==
    /\ (last_call.kind = "apply" /\ last_call.result = "ok") =>
          last_call.log = ApplyLog
    /\ NoWrongMode(last_call.log)
    /\ \A i \in 1..Len(stack) : NoWrongMode(stack[i].log)

C3_Witness ==
    /\ last_call.kind = "apply"
    /\ last_call.result = "ok"
    /\ Len(last_call.log) = 4

DiagonalLog ==
    <<Event("linear_assemble_diagonal", "x_loc", "-"),
      Event("zero_entries", "global", "-"),
      Event("local_to_global", "x_loc", "ADD_VALUES")>>

\* C4 as stated: a get_diagonal that returned Ok first scattered into the
\* local scratch, then assembled the diagonal into x_loc, zeroed d and
\* gathered x_loc with ADD.
C4_DiagonalScatters ==
    (last_call.kind = "diagonal" /\ last_call.result = "ok") =>
        last_call.log =
          <<Event("global_to_local", "x_loc", "INSERT_VALUES")>> \o DiagonalLog

\* C4 amended: a get_diagonal that returned Ok performed no scatter; it
\* assembled the diagonal into the local input scratch x_loc (not y_loc),
\* then zeroed d, then gathered x_loc into d with ADD, in this order.
C4_DiagonalOrder ==
    (last_call.kind = "diagonal" /\ last_call.result = "ok") =>
        /\ last_call.log = DiagonalLog
        /\ \A i \in 1..Len(last_call.log) :
              last_call.log[i].op # "global_to_local"

C4_Witness ==
    /\ last_call.kind = "diagonal"
    /\ last_call.result = "ok"
    /\ Len(last_call.log) = 3

Stages == {"global_to_local", "view_mut", "wrap_slice_mut", "apply",
           "linear_assemble_diagonal", "zero_entries", "local_to_global"}

\* C5: a call in which a stage (scatter, kernel apply or diagonal assembly,
\* gather) failed has ended by returning an error value to its caller.
C5_FailureIsErrorReturn ==
    last_call.failed \in Stages => last_call.result = "err"

\* C6: every scratch RefCell is mutably borrowed at most once, exactly the
\* cells of the one running call are borrowed, and there is never a second
\* call running inside the first.
C6_NoOverlap ==
    /\ Len(stack) <= 1
    /\ \A c \in Cells :
          /\ borrowed[c] <= 1
          /\ borrowed[c] = 1 <=> (stack # <<>> /\ c \in Needs(Top.kind))

C6_Witness ==
    /\ last_call.failed = "borrow_mut"
    /\ last_call.result = "panic"
    /\ last_call.unwound = 1

\* C7: when no callback is running no libCEED vector wraps a scratch slice,
\* and in a running callback the wrappers are gone once the kernel block is
\* left, before zero_entries and the gather.
C7_WrappersReleased ==
    /\ stack = <<>> => wrapped = {}
    /\ \A i \in 1..Len(stack) :
          stack[i].pc \in {"zero_entries", "local_to_global"} => wrapped = {}

C7_Witness ==
    /\ Running("apply", "local_to_global")
    /\ wrapped = {}
    /\ Len(Top.log) = 3

\* C8: a mat_shell_from_dm called after a successful dm() passes its setup
\* check (it does not panic on the is_initalized assert).
C8_ShellAfterDm ==
    (mat.result # "none" /\ mat.dm_done) => mat.result # "panic"

\* C9: a mat_shell_from_dm called before a successful dm() fails its setup
\* check and registers no callback; no callback is ever registered on a
\* context whose is_initalized flag is false.
C9_NoShellBeforeDm ==
    /\ (mat.result # "none" /\ ~mat.dm_done) =>
          (mat.result = "panic" /\ mat.ops = {})
    /\ ~meles.is_initalized => mat.ops = {}

C9_Witness ==
    /\ mat.result = "panic"
    /\ dm_result = "none"
    /\ meles.constructed

QDataBuilt ==
    [len |-> NumElements * Cube(options.order + 1 + options.q_extra)
             * lookup.data.q_data_size,
     writes |-> 1, val |-> 1]

\* C10: a built context has had its qdata written exactly once, by the setup
\* operator, which ran before op_ceed was built; and no step taken while the
\* context is built (any apply or get_diagonal step) changes qdata.
C10_QDataWrittenOnce ==
    /\ [](ctx.state = "built" =>
            /\ qdata = QDataBuilt
            /\ 0 < StageIndex(ctx.stages, "setup_apply")
            /\ StageIndex(ctx.stages, "setup_apply")
                 < StageIndex(ctx.stages, "op_ceed"))
    /\ [][ctx.state = "built" => qdata' = qdata]_vars

C10_Witness ==
    /\ ctx.state = "built"
    /\ qdata.writes = 1
    /\ last_call.kind = "diagonal"
    /\ last_call.result = "ok"
    /\ Running("apply", "zero_entries")

\* C11 as stated: resolving an index twice gives the index back.
C11_InvoluteTwiceIsIdentity ==
    idx.calls = 2 => idx.twice = idx.i

\* C11 amended: involute is idempotent, not an involution: resolving an
\* index twice gives what resolving it once gives, and that is the index
\* itself exactly when the index is non-negative.
C11_InvoluteIdempotent ==
    idx.calls = 2 =>
        /\ idx.twice = idx.once
        /\ idx.twice = idx.i <=> idx.i >= 0

C11_Witness ==
    /\ idx.calls = 2
    /\ idx.i = -1
    /\ idx.once = 0
    /\ idx.twice = 0

\* C14: for every index of the integer type, the most negative one
\* included, involute gives a non-negative index, i itself when i >= 0 and
\* -(i+1) when i < 0, no step of the computation overflows, and a resolved
\* index is left unchanged by a second resolution.
C14_InvoluteRange ==
    idx.calls >= 1 =>
        /\ idx.once >= 0
        /\ InRange(idx.once)
        /\ idx.i >= 0 => idx.once = idx.i
        /\ idx.i < 0 => idx.once = -(idx.i + 1)
        /\ ~idx.overflow
        /\ idx.calls = 2 => idx.twice = idx.once

C14_Witness ==
    /\ idx.calls = 2
    /\ idx.i = MinInt
    /\ idx.once = MaxInt
    /\ idx.twice = MaxInt
    /\ ~idx.overflow

\* C12: a context that got past the basis stage holds exactly two bases: the
\* field basis with the catalog's component count, p = order + 1 nodes and
\* q = p + q_extra >= p quadrature points per dimension, and the geometry
\* basis with 2 nodes per dimension and as many components as the mesh has
\* dimensions; both use the same q and the catalog's quadrature family.
HasStage(stage) == Count(ctx.stages, stage) > 0

C12_TwoBases ==
    HasStage("basis") =>
        /\ ctx.basis_u.num_components = lookup.data.num_components
        /\ ctx.basis_u.p = options.order + 1
        /\ ctx.basis_u.q = ctx.basis_u.p + options.q_extra
        /\ ctx.basis_u.q >= ctx.basis_u.p
        /\ ctx.basis_x.p = 2
        /\ ctx.basis_x.num_components = ctx.basis_x.dim
        /\ ctx.basis_x.dim = ctx.dm_dimension
        /\ ctx.basis_u.dim = ctx.dm_dimension
        /\ ctx.basis_x.q = ctx.basis_u.q
        /\ ctx.basis_x.q_mode = lookup.data.q_mode
        /\ ctx.basis_u.q_mode = lookup.data.q_mode

C12_Witness ==
    /\ ctx.state = "built"
    /\ lookup.problem = "BP2"
    /\ options.order = 2
    /\ options.q_extra = 1
    /\ ctx.basis_u.num_components = 3
    /\ ctx.basis_u.q = 4
    /\ ctx.basis_x.q_mode = "Gauss"

\* C13: the QuadratureData restriction has the field restriction's element
\* count and the field basis's quadrature point count, and its size (and the
\* buffer's) is elements x points x q_data_size; a built context passed the
\* operator's check, so its three fields agree, and a context whose fields
\* disagree is never built.
C13_QDataShape ==
    /\ HasStage("restriction") =>
          /\ ctx.restr_qdata.num_elements = ctx.restr_u.num_elements
          /\ ctx.restr_qdata.elem_size = ctx.basis_u.num_quadrature_points
          /\ ctx.restr_qdata.num_components = lookup.data.q_data_size
          /\ ctx.restr_qdata.l_size =
                NumElements * Cube(options.order + 1 + options.q_extra)
                            * lookup.data.q_data_size
    /\ ctx.state = "built" =>
          /\ qdata.len = ctx.restr_qdata.l_size
          /\ check(ctx.restr_u, ctx.basis_u, ctx.restr_qdata)
    /\ (HasStage("restriction")
          /\ ~check(ctx.restr_u, ctx.basis_u, ctx.restr_qdata)) =>
          /\ ctx.state # "built"
          /\ stack = <<>>

C13_Witness ==
    /\ ctx.state = "built"
    /\ lookup.problem = "BP4"
    /\ options.q_extra = 1
    /\ ctx.restr_qdata.elem_size = Cube(ctx.q)
    /\ ctx.restr_qdata.elem_size # ctx.restr_u.elem_size
    /\ qdata.len = NumElements * Cube(ctx.q) * 6

\* C17: the boundary function is given exactly when the catalog flag is set,
\* so setup_dm_by_order adds the essential boundary "wall" (label "marker",
\* value 1) for BP3..BP6 and no boundary for BP1 and BP2; no unwrap panics,
\* the label exists whenever a boundary was added, and faces are marked only
\* when the DM did not already have the label.
BoundaryProblems == {"BP3", "BP4", "BP5", "BP6"}

Wall == [name |-> "wall", label |-> "marker", value |-> 1,
         fn |-> "boundary_function_diff"]

DMSetUp(d) ==
    /\ ~d.panicked
    /\ d.setups >= 1
    /\ lookup.data.set_boundary_conditions <=> lookup.problem \in BoundaryProblems
    /\ IF lookup.problem \in BoundaryProblems
       THEN /\ Len(d.boundaries) = d.setups
            /\ \A k \in 1..Len(d.boundaries) : d.boundaries[k] = Wall
            /\ "marker" \in d.labels
            /\ d.marked = IF d.had_marker THEN 0 ELSE 1
       ELSE /\ d.boundaries = <<>>
            /\ d.marked = 0
            /\ d.labels = IF d.had_marker THEN {"marker"} ELSE {}

C17_BoundarySetup ==
    /\ dm_result # "panic"
    /\ dm_result = "ok" => DMSetUp(mesh_dm)
    /\ HasStage("setup_dm") => DMSetUp(ctx.dm)
    /\ ctx.state = "panic" => HasStage("setup_dm")

C17_Witness ==
    /\ dm_result = "ok"
    /\ ctx.state = "built"
    /\ lookup.problem = "BP3"
    /\ ~mesh_dm.had_marker
    /\ mesh_dm.marked = 1
    /\ ctx.dm.marked = 1
    /\ ctx.dm.boundaries = <<Wall, Wall>>

\* C15: an apply that returns successfully leaves in y_global what the first
\* apply on a fresh shell gives for the same x, whatever calls came before
\* and whatever they left in y_global and in the scratch vectors.
FreshApply(x) ==
    local_to_global_add(
        OperatorApply(global_to_local_insert(x, ZeroLocal, ctx.bc), qdata),
        ZeroGlobal, ctx.bc)

C15_ApplyIndependentOfHistory ==
    [][(/\ Running("apply", "local_to_global")
        /\ last_call' # last_call
        /\ last_call'.result = "ok")
         => y_global' = FreshApply(Top.x)]_vars

\* C16: a callback that fails in the scatter, in a wrap or in the kernel
\* leaves the output vector as it was when the callback was entered.
EarlyStages == {"global_to_local", "view_mut", "wrap_slice_mut", "apply",
                "linear_assemble_diagonal"}

C16_OutputUntouchedOnEarlyFailure ==
    [][(/\ stack # <<>>
        /\ last_call' # last_call
        /\ last_call'.failed \in EarlyStages)
         => y_global' = Top.y_in]_vars

C16_Witness ==
    /\ last_call.kind = "apply"
    /\ last_call.failed = "apply"
    /\ last_call.result = "panic"
    /\ y_global # ZeroGlobal
    /\ stack = <<>>

\* C18: for every node with x in [0, 1] the transformation uses
\* layer = floor(6x) and lambda = 6x - layer in [0, 1], rewrites only y and
\* z and leaves x unchanged.
C18_KershawLayers ==
    coords.state = "transformed" =>
        \A i \in DOMAIN coords.before :
            LET x == coords.before[i].x
            IN (0 <= x /\ x <= One) =>
                  /\ coords.trace[i].layer = (6 * x) \div One
                  /\ coords.trace[i].lambda = 6 * x - coords.trace[i].layer * One
                  /\ 0 <= coords.trace[i].lambda
                  /\ coords.trace[i].lambda <= One
                  /\ coords.nodes[i].x = x

====
